---- MODULE Spec2Model ----
(***************************************************************************)
(* Model of vectorizer.py: the command line entry point (main), the        *)
(* raster branch (process_raster, raster_to_vector), and the inset loop    *)
(* (process_svg, inset_polygon, shapely_to_svgpathtools).                  *)
(*                                                                         *)
(* Every run of the program is one operating-system process; processes     *)
(* share the working directory (fs).  Coordinates and offsets are integers *)
(* (one unit of the drawing).  The shapely primitives (Polygon, LineString,*)
(* is_valid, is_empty, area, buffer) are modelled on a family of           *)
(* rectilinear shapes: axis-aligned rectangles, "dumbbells" (two           *)
(* rectangles joined by a neck) and the MultiPolygons an inward offset     *)
(* splits a dumbbell into.  Corners are mitred in the model; the arcs GEOS *)
(* puts at reflex corners and on outward offsets are not represented.      *)
(***************************************************************************)
EXTENDS Integers, Sequences, FiniteSets, TLC

VARIABLES procs, fs, pc, args, svg_path, paths, idx, shape, shape0,
          processed_paths, base, iter, status, stdout, error

vars == <<procs, fs, pc, args, svg_path, paths, idx, shape, shape0,
          processed_paths, base, iter, status, stdout, error>>

(***************************************************************************)
(* Bounds of the model.                                                    *)
(***************************************************************************)
MaxSide == 10
MaxOffset == 3
MaxNegOffset == 1
MaxPaths == 2
MaxIter == 6

Abs(x) == IF x < 0 THEN 0 - x ELSE x

\* the element of a one-element set
Only(S) == CHOOSE x \in S : TRUE

RECURSIVE SumTo(_, _)
SumTo(f, n) == IF n = 0 THEN 0 ELSE f[n] + SumTo(f, n - 1)

(***************************************************************************)
(* svgpathtools: a Path is a sequence of Line segments, each with a start  *)
(* and an end point (complex numbers in the source, pairs here).           *)
(***************************************************************************)
Line(p, q) == [start |-> p, end |-> q]

\* SVGPath(*[Line(a, b) for a, b in zip(coords[:-1], coords[1:])])
PathOfCoords(coords) ==
    IF Len(coords) < 2 THEN << >>
    ELSE [i \in 1..(Len(coords) - 1) |-> Line(coords[i], coords[i + 1])]

\* [(segment.start.real, segment.start.imag) for segment in path]
PointsOf(path) == [i \in 1..Len(path) |-> path[i].start]

(***************************************************************************)
(* shapely geometries: kind, coords (the exterior ring of a Polygon,       *)
(* closed; the points of a LineString) and geoms (the exterior rings of    *)
(* the parts of a MultiPolygon).                                           *)
(***************************************************************************)
Geom(k, c, gs) == [kind |-> k, coords |-> c, geoms |-> gs]

EmptyPolygon == Geom("Polygon", << >>, << >>)

\* Python's None, as returned by inset_polygon
None == Geom("None", << >>, << >>)

\* Polygon(points): the ring is closed when the last point is not the first
Polygon(points) ==
    Geom("Polygon",
         IF points[Len(points)] = points[1] THEN points
         ELSE Append(points, points[1]),
         << >>)

\* LineString(points); a single point is refused by the constructor
LineString(points) == Geom("LineString", points, << >>)

LineStringRaises(points) == Len(points) = 1

is_empty(g) == g.coords = << >> /\ g.geoms = << >>

\* twice the signed area of a closed ring (shoelace formula)
Shoelace2(c) ==
    IF Len(c) < 2 THEN 0
    ELSE SumTo([i \in 1..(Len(c) - 1) |->
                  c[i][1] * c[i + 1][2] - c[i + 1][1] * c[i][2]], Len(c) - 1)

\* area of a ring; exact on the integer rectilinear rings of the model
RingArea(c) == Abs(Shoelace2(c)) \div 2

area(g) ==
    IF g.kind = "Polygon" THEN RingArea(g.coords)
    ELSE IF g.kind = "MultiPolygon"
         THEN SumTo([i \in 1..Len(g.geoms) |-> RingArea(g.geoms[i])], Len(g.geoms))
    ELSE 0

\* orientation of r relative to the directed line p -> q
Orient(p, q, r) ==
    (q[1] - p[1]) * (r[2] - p[2]) - (q[2] - p[2]) * (r[1] - p[1])

Min(a, b) == IF a < b THEN a ELSE b
Max(a, b) == IF a > b THEN a ELSE b

\* r lies in the bounding box of segment p q
InBox(p, q, r) ==
    /\ Min(p[1], q[1]) <= r[1] /\ r[1] <= Max(p[1], q[1])
    /\ Min(p[2], q[2]) <= r[2] /\ r[2] <= Max(p[2], q[2])

SegsIntersect(p1, p2, p3, p4) ==
    LET d1 == Orient(p3, p4, p1)
        d2 == Orient(p3, p4, p2)
        d3 == Orient(p1, p2, p3)
        d4 == Orient(p1, p2, p4)
    IN  \/ (d1 * d2 < 0 /\ d3 * d4 < 0)
        \/ (d1 = 0 /\ InBox(p3, p4, p1))
        \/ (d2 = 0 /\ InBox(p3, p4, p2))
        \/ (d3 = 0 /\ InBox(p1, p2, p3))
        \/ (d4 = 0 /\ InBox(p1, p2, p4))

\* two edges that share the vertex v fold back onto each other
FoldsBack(a, v, b) ==
    /\ Orient(a, v, b) = 0
    /\ (a[1] - v[1]) * (b[1] - v[1]) + (a[2] - v[2]) * (b[2] - v[2]) > 0

\* a closed ring is simple: at least three edges, an interior, and no two
\* edges meeting except consecutive ones at their shared vertex
RingSimple(c) ==
    LET n == Len(c) - 1
    IN  /\ n >= 3
        /\ c[1] = c[n + 1]
        /\ Shoelace2(c) # 0
        /\ \A i \in 1..n : c[i] # c[i + 1]
        /\ \A i \in 1..n : \A j \in (i + 1)..n :
             IF j = i + 1 THEN ~FoldsBack(c[i], c[j], c[j + 1])
             ELSE IF i = 1 /\ j = n THEN ~FoldsBack(c[n], c[1], c[2])
             ELSE ~SegsIntersect(c[i], c[i + 1], c[j], c[j + 1])

is_valid(g) ==
    IF is_empty(g) THEN TRUE
    ELSE IF g.kind = "Polygon" THEN RingSimple(g.coords)
    ELSE IF g.kind = "LineString"
         THEN \E i, j \in 1..Len(g.coords) : g.coords[i] # g.coords[j]
    ELSE \A i \in 1..Len(g.geoms) : RingSimple(g.geoms[i])

(***************************************************************************)
(* The shape family.                                                       *)
(***************************************************************************)
RectCoords(x0, y0, x1, y1) ==
    << <<x0, y0>>, <<x1, y0>>, <<x1, y1>>, <<x0, y1>>, <<x0, y0>> >>

\* two rectangles [x0,x1] and [x2,x3] over [y0,y1], joined by a neck
\* [x1,x2] over [n0,n1]
DumbbellCoords(x0, x1, x2, x3, y0, n0, n1, y1) ==
    << <<x0, y0>>, <<x1, y0>>, <<x1, n0>>, <<x2, n0>>, <<x2, y0>>,
       <<x3, y0>>, <<x3, y1>>, <<x2, y1>>, <<x2, n1>>, <<x1, n1>>,
       <<x1, y1>>, <<x0, y1>>, <<x0, y0>> >>

IsRect(c) ==
    /\ Len(c) = 5
    /\ c[1][1] < c[3][1] /\ c[1][2] < c[3][2]
    /\ c = RectCoords(c[1][1], c[1][2], c[3][1], c[3][2])

IsDumbbell(c) ==
    /\ Len(c) = 13
    /\ c = DumbbellCoords(c[1][1], c[2][1], c[4][1], c[6][1],
                          c[1][2], c[3][2], c[9][2], c[7][2])
    /\ c[1][1] < c[2][1] /\ c[2][1] < c[4][1] /\ c[4][1] < c[6][1]
    /\ c[1][2] < c[3][2] /\ c[3][2] < c[9][2] /\ c[9][2] < c[7][2]
    \* the neck is no wider than either rectangle, so it closes first
    /\ c[9][2] - c[3][2] <= c[2][1] - c[1][1]
    /\ c[9][2] - c[3][2] <= c[6][1] - c[4][1]

\* the ring of a rectangle with every side moved outward by d (inward when
\* d < 0); nothing is left when the sides meet
BufferRect(x0, y0, x1, y1, d) ==
    IF x1 + d <= x0 - d \/ y1 + d <= y0 - d THEN << >>
    ELSE RectCoords(x0 - d, y0 - d, x1 + d, y1 + d)

RECURSIVE NonEmptyRings(_)
NonEmptyRings(rings) ==
    IF rings = << >> THEN << >>
    ELSE IF Head(rings) = << >> THEN NonEmptyRings(Tail(rings))
    ELSE <<Head(rings)>> \o NonEmptyRings(Tail(rings))

\* the geometry made of the rings that are left: an empty Polygon, a
\* Polygon, or a MultiPolygon
Collect(rings) ==
    LET left == NonEmptyRings(rings)
    IN  IF Len(left) = 0 THEN EmptyPolygon
        ELSE IF Len(left) = 1 THEN Geom("Polygon", left[1], << >>)
        ELSE Geom("MultiPolygon", << >>, left)

BufferDumbbell(c, d) ==
    LET x0 == c[1][1]  x1 == c[2][1]  x2 == c[4][1]  x3 == c[6][1]
        y0 == c[1][2]  n0 == c[3][2]  n1 == c[9][2]  y1 == c[7][2]
    IN  IF x2 - d <= x1 + d
        THEN \* the gap between the rectangles closes (outward offset)
             Geom("Polygon", RectCoords(x0 - d, y0 - d, x3 + d, y1 + d), << >>)
        ELSE IF n1 + d > n0 - d
        THEN Geom("Polygon",
                  DumbbellCoords(x0 - d, x1 + d, x2 - d, x3 + d,
                                 y0 - d, n0 - d, n1 + d, y1 + d), << >>)
        ELSE \* the neck closes: the shape splits into its rectangles
             Collect(<<BufferRect(x0, y0, x1, y1, d),
                       BufferRect(x2, y0, x3, y1, d)>>)

\* geometry.buffer(distance)
buffer(g, d) ==
    IF is_empty(g) THEN EmptyPolygon
    ELSE IF g.kind = "LineString"
    THEN IF d <= 0 THEN EmptyPolygon
         ELSE LET xs == {g.coords[i][1] : i \in 1..Len(g.coords)}
                  ys == {g.coords[i][2] : i \in 1..Len(g.coords)}
                  lo(S) == CHOOSE v \in S : \A w \in S : v <= w
                  hi(S) == CHOOSE v \in S : \A w \in S : v >= w
              IN  Geom("Polygon",
                       RectCoords(lo(xs) - d, lo(ys) - d, hi(xs) + d, hi(ys) + d),
                       << >>)
    ELSE IF g.kind = "MultiPolygon"
    THEN Collect([i \in 1..Len(g.geoms) |->
                    LET r == g.geoms[i]
                    IN  BufferRect(r[1][1], r[1][2], r[3][1], r[3][2], d)])
    ELSE IF IsRect(g.coords)
    THEN LET r == g.coords
         IN  Collect(<<BufferRect(r[1][1], r[1][2], r[3][1], r[3][2], d)>>)
    ELSE IF IsDumbbell(g.coords) THEN BufferDumbbell(g.coords, d)
    ELSE EmptyPolygon

(***************************************************************************)
(* vectorizer.py                                                           *)
(***************************************************************************)
shapely_to_svgpathtools(geometry) ==
    IF geometry.kind \in {"Polygon", "LineString"}
    THEN PathOfCoords(geometry.coords)
    ELSE << >>          \* None: falsy at the caller, like a Path of no segment

\* variant: the candidate is returned without the emptiness and area test
inset_polygon_unchecked(polygon, offset) ==
    IF ~is_valid(polygon) \/ is_empty(polygon) THEN None
    ELSE buffer(polygon, 0 - offset)

\* variant: the sign of the buffer distance is lost
inset_polygon_outward(polygon, offset) ==
    IF ~is_valid(polygon) \/ is_empty(polygon) THEN None
    ELSE Only({IF is_empty(inset) \/ area(inset) <= 0 THEN None ELSE inset :
                 inset \in {buffer(polygon, offset)}})

inset_polygon(polygon, offset) ==
    IF ~is_valid(polygon) \/ is_empty(polygon) THEN None
    ELSE Only({IF is_empty(inset) \/ area(inset) <= 0 THEN None ELSE inset :
                 inset \in {buffer(polygon, 0 - offset)}})


\* input_path.suffix.lower()
Lower(suffix) ==
    IF suffix = ".SVG" THEN ".svg"
    ELSE IF suffix = ".PNG" THEN ".png"
    ELSE IF suffix = ".Jpg" THEN ".jpg"
    ELSE suffix

FileName(stem, suffix) == [stem |-> stem, suffix |-> suffix]

\* Path("vectorized.svg"), relative to the working directory
temp_output_path == FileName("vectorized", ".svg")

\* the content of a file: the paths of an SVG document, or a raster image
SvgFile(ps) == [paths |-> ps, image |-> ""]
ImageFile(img) == [paths |-> << >>, image |-> img]

UnsupportedMessage == "Unsupported file format. Please provide an SVG or raster image."

(***************************************************************************)
(* Input paths, as svg2paths returns them.                                 *)
(***************************************************************************)
\* a closed rectangle: four segments, whose starts are the four corners
RectPath(x0, y0, x1, y1) == PathOfCoords(RectCoords(x0, y0, x1, y1))

SquarePath(s) == RectPath(0, 0, s, s)

\* neck of width 2, left rectangle narrower than the right one
DumbbellThin == PathOfCoords(DumbbellCoords(0, 4, 6, 14, 0, 3, 5, 8))

\* neck of width 4
DumbbellWide == PathOfCoords(DumbbellCoords(0, 6, 8, 14, 0, 1, 5, 6))

\* the corners of a square taken in crossing order: a self-intersecting ring
BowtiePath ==
    PathOfCoords(<< <<0, 0>>, <<10, 10>>, <<10, 0>>, <<0, 10>>, <<0, 0>> >>)

\* an open path of two segments: two extracted points
TwoPointPath == PathOfCoords(<< <<0, 0>>, <<5, 0>>, <<5, 5>> >>)

\* a single straight segment (an SVG <line>): one extracted point
OneSegmentPath == PathOfCoords(<< <<0, 0>>, <<10, 10>> >>)

\* a path of no segment
EmptyPath == << >>

PathFixtures ==
    {SquarePath(s) : s \in 1..MaxSide}
      \cup {RectPath(1, 2, 9, 5), DumbbellThin, DumbbellWide, BowtiePath,
            TwoPointPath, OneSegmentPath, EmptyPath}

RECURSIVE SeqsUpTo(_, _)
SeqsUpTo(S, n) ==
    IF n = 0 THEN {<< >>}
    ELSE LET shorter == SeqsUpTo(S, n - 1)
         IN  shorter \cup {Append(q, x) : q \in shorter, x \in S}

\* the paths that documents of several paths are made of
MixedPaths ==
    {SquarePath(5), DumbbellThin, TwoPointPath, OneSegmentPath, EmptyPath}

\* documents of one path, and documents of up to MaxPaths mixed paths
SvgDocuments ==
    {<<x>> : x \in PathFixtures} \cup SeqsUpTo(MixedPaths, MaxPaths)

Images == {"imgA", "imgB"}

\* what the tracer draws for an image (mode='polygon': closed polygons)
Trace(img) ==
    IF img = "imgA" THEN <<SquarePath(10)>>
    ELSE <<RectPath(0, 0, 6, 4), SquarePath(3)>>

Offsets == (0 - MaxNegOffset)..MaxOffset

\* an input file: its name and its content
Inputs ==
    {[name |-> FileName("in", ".svg"), content |-> SvgFile(d)] : d \in SvgDocuments}
      \cup {[name |-> FileName("in", ".SVG"), content |-> SvgFile(<<SquarePath(4)>>)]}
      \cup {[name |-> FileName("in", sfx), content |-> ImageFile(img)] :
              sfx \in {".png", ".jpeg", ".jpg", ".PNG"}, img \in Images}
      \cup {[name |-> FileName("in", sfx), content |-> SvgFile(<<SquarePath(4)>>)] :
              sfx \in {".txt", "", ".svgz"}}

OutputName(p) == FileName(IF p = 1 THEN "out1" ELSE "out2", ".svg")

(***************************************************************************)
(* State after construction: the local variables of a run that has not    *)
(* reached process_svg yet.                                                *)
(***************************************************************************)
InitLocals ==
    /\ svg_path = [p \in procs |-> FileName("", "")]
    /\ paths = [p \in procs |-> << >>]
    /\ idx = [p \in procs |-> 0]
    /\ shape = [p \in procs |-> None]
    /\ shape0 = [p \in procs |-> None]
    /\ processed_paths = [p \in procs |-> << >>]
    /\ base = [p \in procs |-> 0]
    /\ iter = [p \in procs |-> 0]
    /\ status = [p \in procs |-> -1]
    /\ stdout = [p \in procs |-> << >>]
    /\ error = [p \in procs |-> "none"]

\* one run of the program, not yet started
Init ==
    /\ procs = {1}
    /\ fs = << >>
    /\ args = [p \in procs |->
                 [input |-> FileName("", ""), offset |-> 1, output |-> OutputName(p)]]
    /\ InitLocals
    /\ pc = [p \in procs |-> "parse_args"]

\* two runs on two images in the same working directory
InitConcurrent ==
    /\ procs = {1, 2}
    /\ \E s1, s2 \in {".png", ".jpg"}, o1, o2 \in 1..MaxOffset :
         /\ fs = (FileName("a", s1) :> ImageFile("imgA"))
                   @@ (FileName("b", s2) :> ImageFile("imgB"))
         /\ args = [p \in procs |->
                      [input |-> FileName(IF p = 1 THEN "a" ELSE "b",
                                          IF p = 1 THEN s1 ELSE s2),
                       offset |-> IF p = 1 THEN o1 ELSE o2,
                       output |-> OutputName(p)]]
    /\ InitLocals
    /\ pc = [p \in procs |-> "main"]

\* writing a file replaces what the name held
WriteFile(files, name, content) ==
    [n \in DOMAIN files \cup {name} |-> IF n = name THEN content ELSE files[n]]

(***************************************************************************)
(* main: dispatch on the lower-cased suffix of the input path.             *)
(***************************************************************************)
Dispatch(suffix) ==
    IF Lower(suffix) \in {".svg"} THEN "process_svg"
    ELSE IF Lower(suffix) \in {".png", ".jpeg", ".jpg"} THEN "raster_to_vector"
    ELSE "unsupported"

\* the exit status of a run that falls off the end of main
ReturnStatus == 0

\* the exit status of a run ended by an uncaught exception
UncaughtStatus == 1

\* the program is started on an input file with an offset: parse_args
ParseArgs(p) ==
    /\ pc[p] = "parse_args"
    /\ \E inp \in Inputs, o \in Offsets :
         /\ fs' = WriteFile(fs, inp.name, inp.content)
         /\ args' = [args EXCEPT ![p] =
                       [input |-> inp.name, offset |-> o, output |-> OutputName(p)]]
    /\ pc' = [pc EXCEPT ![p] = "main"]
    /\ UNCHANGED <<procs, svg_path, paths, idx, shape, shape0, processed_paths,
                   base, iter, status, stdout, error>>

Main(p) ==
    /\ pc[p] = "main"
    /\ LET to == Dispatch(args[p].input.suffix)
       IN  IF to = "unsupported"
           THEN /\ stdout' = [stdout EXCEPT ![p] = Append(@, UnsupportedMessage)]
                /\ status' = [status EXCEPT ![p] = ReturnStatus]
                /\ pc' = [pc EXCEPT ![p] = "exit"]
                /\ UNCHANGED svg_path
           ELSE /\ pc' = [pc EXCEPT ![p] = to]
                /\ svg_path' = [svg_path EXCEPT ![p] =
                                  IF to = "process_svg" THEN args[p].input ELSE @]
                /\ UNCHANGED <<stdout, status>>
    /\ UNCHANGED <<procs, fs, args, paths, idx, shape, shape0, processed_paths,
                   base, iter, error>>

\* process_raster, first statement: the tracer writes the fixed temporary file
RasterToVector(p) ==
    /\ pc[p] = "raster_to_vector"
    /\ fs' = WriteFile(fs, temp_output_path, SvgFile(Trace(fs[args[p].input].image)))
    /\ svg_path' = [svg_path EXCEPT ![p] = temp_output_path]
    /\ pc' = [pc EXCEPT ![p] = "process_svg"]
    /\ UNCHANGED <<procs, args, paths, idx, shape, shape0, processed_paths,
                   base, iter, status, stdout, error>>

\* process_svg, up to the for loop: svg2paths reads the file
ProcessSvg(p) ==
    /\ pc[p] = "process_svg"
    /\ paths' = [paths EXCEPT ![p] = fs[svg_path[p]].paths]
    /\ processed_paths' = [processed_paths EXCEPT ![p] = << >>]
    /\ idx' = [idx EXCEPT ![p] = 1]
    /\ pc' = [pc EXCEPT ![p] = "for"]
    /\ UNCHANGED <<procs, fs, args, svg_path, shape, shape0, base, iter,
                   status, stdout, error>>

\* the head of the for loop: the next path becomes a shape, or the loop ends
ForPath(p) ==
    /\ pc[p] = "for"
    /\ IF idx[p] > Len(paths[p])
       THEN /\ pc' = [pc EXCEPT ![p] = "wsvg"]
            /\ UNCHANGED <<shape, shape0, base, iter, status, error>>
       ELSE LET points == PointsOf(paths[p][idx[p]])
            IN  IF Len(points) <= 2 /\ LineStringRaises(points)
                THEN /\ error' = [error EXCEPT ![p] = "LineString"]
                     /\ status' = [status EXCEPT ![p] = UncaughtStatus]
                     /\ pc' = [pc EXCEPT ![p] = "exit"]
                     /\ UNCHANGED <<shape, shape0, base, iter>>
                ELSE LET s == IF Len(points) > 2 THEN Polygon(points)
                              ELSE LineString(points)
                     IN  /\ shape' = [shape EXCEPT ![p] = s]
                         /\ shape0' = [shape0 EXCEPT ![p] = s]
                         /\ base' = [base EXCEPT ![p] = Len(processed_paths[p])]
                         /\ iter' = [iter EXCEPT ![p] = 0]
                         /\ pc' = [pc EXCEPT ![p] = "while"]
                         /\ UNCHANGED <<status, error>>
    /\ UNCHANGED <<procs, fs, args, svg_path, paths, idx, processed_paths, stdout>>

\* variant: the new path is put in front of the list
Collected_prepend(pps, candidate) ==
    LET processed_path == shapely_to_svgpathtools(candidate)
    IN  IF Len(processed_path) > 0 THEN <<processed_path>> \o pps ELSE pps

\* processed_paths after one accepted candidate
Collected(pps, candidate) ==
    LET processed_path == shapely_to_svgpathtools(candidate)
    IN  IF Len(processed_path) > 0 THEN Append(pps, processed_path) ELSE pps

\* variant: the shape is converted and appended before it is replaced by its
\* inset, so the input shape itself is written and the last inset is not
WhileStep_append_first(p) ==
    /\ pc[p] = "while"
    /\ iter[p] < MaxIter
    /\ \E candidate \in {inset_polygon(shape[p], args[p].offset)} :
           /\ shape' = [shape EXCEPT ![p] = candidate]
           /\ IF candidate = None
              THEN /\ idx' = [idx EXCEPT ![p] = @ + 1]
                   /\ pc' = [pc EXCEPT ![p] = "for"]
                   /\ UNCHANGED <<processed_paths, iter>>
              ELSE /\ processed_paths' =
                        [processed_paths EXCEPT ![p] = Collected(@, shape[p])]
                   /\ iter' = [iter EXCEPT ![p] = @ + 1]
                   /\ UNCHANGED <<idx, pc>>
    /\ UNCHANGED <<procs, fs, args, svg_path, paths, shape0, base, status,
                   stdout, error>>

\* one iteration of the while loop
WhileStep(p) ==
    /\ pc[p] = "while"
    /\ iter[p] < MaxIter
    /\ \E candidate \in {inset_polygon(shape[p], args[p].offset)} :
           /\ shape' = [shape EXCEPT ![p] = candidate]
           /\ IF candidate = None
              THEN /\ idx' = [idx EXCEPT ![p] = @ + 1]
                   /\ pc' = [pc EXCEPT ![p] = "for"]
                   /\ UNCHANGED <<processed_paths, iter>>
              ELSE /\ processed_paths' =
                        [processed_paths EXCEPT ![p] = Collected(@, candidate)]
                   /\ iter' = [iter EXCEPT ![p] = @ + 1]
                   /\ UNCHANGED <<idx, pc>>
    /\ UNCHANGED <<procs, fs, args, svg_path, paths, shape0, base, status,
                   stdout, error>>

\* wsvg(processed_paths, filename=str(output_path)), then main returns
Wsvg(p) ==
    /\ pc[p] = "wsvg"
    /\ fs' = WriteFile(fs, args[p].output, SvgFile(processed_paths[p]))
    /\ status' = [status EXCEPT ![p] = ReturnStatus]
    /\ pc' = [pc EXCEPT ![p] = "exit"]
    /\ UNCHANGED <<procs, args, svg_path, paths, idx, shape, shape0,
                   processed_paths, base, iter, stdout, error>>

\* the steps of a started run
Run ==
    \/ \E p \in procs : Main(p)
    \/ \E p \in procs : RasterToVector(p)
    \/ \E p \in procs : ProcessSvg(p)
    \/ \E p \in procs : ForPath(p)
    \/ \E p \in procs : WhileStep(p)
    \/ \E p \in procs : Wsvg(p)

Next ==
    \/ \E p \in procs : ParseArgs(p)
    \/ Run

Spec == Init /\ [][Next]_vars

\* the interpreter keeps running the program: a step that can be taken is taken
FairSpec == Init /\ [][Next]_vars /\ WF_vars(Next)

SpecConcurrent == InitConcurrent /\ [][Run]_vars

(***************************************************************************)
(* Properties.                                                             *)
(***************************************************************************)
\* the geometry a written path stands for: the ring through its points
RingOf(path) == Polygon(PointsOf(path))

Sound(g) == is_valid(g) /\ ~is_empty(g) /\ area(g) > 0

ValidPolygon(g) == g.kind = "Polygon" /\ Sound(g)

\* the rings appended for the shape being processed (or just processed)
CurrentRings(p) ==
    [i \in 1..(Len(processed_paths[p]) - base[p]) |-> processed_paths[p][base[p] + i]]

InShapeLoop(p) == pc[p] \in {"while", "for"} /\ shape0[p] # None

\* C1: every accepted candidate, and every ring in the output, is valid,
\* non-empty and of strictly positive area; a candidate that is not ends the
\* loop and is not appended.
C1_AcceptedRingsSound ==
    \A p \in procs :
        /\ (pc[p] = "while" /\ iter[p] > 0) => Sound(shape[p])
        /\ \A i \in 1..Len(processed_paths[p]) : Sound(RingOf(processed_paths[p][i]))

\* C1 witness: the loop of a shape has ended on a rejected candidate after
\* rings were appended for it.
C1_Witness ==
    \E p \in procs :
        /\ pc[p] = "for" /\ shape[p] = None /\ iter[p] >= 2
        /\ Len(processed_paths[p]) - base[p] >= 2

\* C2: for a valid polygon of positive area and a positive offset the while
\* loop always reaches its break.
C2_LoopTerminates ==
    \A p \in {1} :
        [](( /\ pc[p] = "while"
             /\ args[p].offset > 0
             /\ ValidPolygon(shape0[p]) )
           => <>(pc[p] # "while"))

\* C2 witness: the loop of a valid polygon has ended after several accepted
\* candidates.
C2_Witness ==
    /\ pc[1] = "for" /\ shape[1] = None /\ iter[1] >= 3
    /\ args[1].offset > 0 /\ ValidPolygon(shape0[1])

\* C3: with an offset of 0 or less no candidate is ever accepted, no ring is
\* appended, and the run ends with a rejection.
C3_NonPositiveOffsetRejected ==
    \A p \in procs :
        args[p].offset <= 0 =>
            /\ iter[p] = 0
            /\ processed_paths[p] = << >>
            /\ (pc[p] = "exit" => status[p] # ReturnStatus)

\* C4: for a positive offset a path of at most two extracted points raises
\* no error and gets no ring, and a run over polygons and such paths still
\* writes its output.
C4_PolylineNoOp ==
    \A p \in procs :
        args[p].offset > 0 =>
            /\ (error[p] # "none" => Len(PointsOf(paths[p][idx[p]])) > 2)
            /\ (InShapeLoop(p) /\ shape0[p].kind = "LineString"
                  => Len(processed_paths[p]) = base[p])
            /\ (pc[p] = "exit" /\ Dispatch(args[p].input.suffix) # "unsupported"
                  => args[p].output \in DOMAIN fs)

C6_FailureIsolated ==
    \A p \in procs :
        ( /\ pc[p] = "exit" /\ error[p] # "none"
          /\ args[p].offset > 0 /\ processed_paths[p] # << >> )
        => /\ idx[p] > Len(paths[p])
           /\ args[p].output \in DOMAIN fs
           /\ fs[args[p].output] = SvgFile(processed_paths[p])

\* C7: on an unsupported suffix (and a positive offset) main prints a diagnostic, processes nothing,
\* writes no output and exits with a non-zero status.
C7_UnsupportedExitsNonZero ==
    \A p \in procs :
        ( /\ pc[p] = "exit" /\ args[p].offset > 0
          /\ Dispatch(args[p].input.suffix) = "unsupported" ) =>
            /\ stdout[p] = <<UnsupportedMessage>>
            /\ processed_paths[p] = << >>
            /\ args[p].output \notin DOMAIN fs
            /\ status[p] # ReturnStatus

\* the squares of side s - 2d, s - 4d, ... while the side is positive
ExpectedSquareRings(s, d) ==
    [k \in 1..((s - 1) \div (2 * d)) |-> RectPath(k * d, k * d, s - k * d, s - k * d)]

\* C8: for the square of side s and an offset d > 0 the rings are exactly
\* the squares of side s - 2kd, k >= 1, s - 2kd > 0, in that order, without
\* the square itself (side 10, offset 1: sides 8, 6, 4, 2).
C8_SquareRings ==
    \A p \in procs : \A s \in 1..MaxSide :
        ( /\ args[p].offset > 0
          /\ pc[p] = "for" /\ shape[p] = None
          /\ shape0[p] = RingOf(SquarePath(s)) )
        => CurrentRings(p) = ExpectedSquareRings(s, args[p].offset)

\* C8 witness: the square of side 10 with offset 1 has ended on 4 rings, the
\* last of side 2.
C8_Witness ==
    \E p \in procs :
        /\ args[p].offset = 1
        /\ pc[p] = "for" /\ shape[p] = None
        /\ shape0[p] = RingOf(SquarePath(10))
        /\ Len(CurrentRings(p)) = 4
        /\ CurrentRings(p)[1] = RectPath(1, 1, 9, 9)
        /\ CurrentRings(p)[4] = RectPath(4, 4, 6, 6)

\* C9: for a positive offset every accepted candidate is appended: the rings of a shape are as
\* many as its accepted candidates, and the last ring is the current shape.
C9_AcceptedAppended ==
    \A p \in procs :
        (InShapeLoop(p) /\ args[p].offset > 0) =>
            /\ Len(CurrentRings(p)) = iter[p]
            /\ (pc[p] = "while" /\ iter[p] > 0
                  => processed_paths[p][Len(processed_paths[p])]
                       = shapely_to_svgpathtools(shape[p]))

\* C10: the inset stage of a raster run reads the trace of its own image.
C10_OwnTrace ==
    \A p \in procs :
        ( /\ Dispatch(args[p].input.suffix) = "raster_to_vector"
          /\ pc[p] \in {"for", "while", "wsvg", "exit"} )
        => paths[p] = Trace(fs[args[p].input].image)

====
